---------------------------- MODULE Spec2Model ----------------------------
(***************************************************************************)
(* The incremental WebSocket frame reader of aiohttp                       *)
(* (aiohttp/_websocket/reader_py.py, class WebSocketReader).               *)
(*                                                                         *)
(* A peer writes frames to the connection (wire); the transport hands the  *)
(* bytes to WebSocketReader.feed_data in chunks of any size and finally    *)
(* calls feed_eof.  The reader pushes messages, the fatal error and the    *)
(* end of stream into its queue; sink is the log of those calls.           *)
(*                                                                         *)
(* Bytes are integers 0..255, byte strings are sequences of bytes.         *)
(***************************************************************************)
EXTENDS Integers, Sequences, FiniteSets, TLC

VARIABLES
    reader,   \* the fields of the WebSocketReader object
    sink,     \* the calls made on reader.queue, in order
    ret,      \* what the last feed_data call returned
    wire,     \* bytes written by the peer and not yet read by the transport
    sent      \* the frames the peer has written so far, in order

vars == <<reader, sink, ret, wire, sent>>

---------------------------------------------------------------------------
(* Program constants *)

READ_HEADER == 1
READ_PAYLOAD_LENGTH == 2
READ_PAYLOAD_MASK == 3
READ_PAYLOAD == 4

OP_CODE_CONTINUATION == 0
OP_CODE_TEXT == 1
OP_CODE_BINARY == 2
OP_CODE_CLOSE == 8
OP_CODE_PING == 9
OP_CODE_PONG == 10

\* WSCloseCode members used by the reader
PROTOCOL_ERROR == 1002
INVALID_TEXT == 1007
MESSAGE_TOO_BIG == 1009

ALLOWED_CLOSE_CODES ==
    {1000, 1001, 1002, 1003, 1007, 1008, 1009, 1010, 1011, 1012, 1013, 1014, 1015}

WS_DEFLATE_TRAILING == <<0, 0, 255, 255>>

\* Python's None for an Optional[int] field (_opcode, _frame_opcode)
NoneInt == -1
\* _exc is None; otherwise _exc is modelled by the close code of the WebSocketError
NoExc == 0
\* Optional[bool] _compressed takes the values "None", "False", "True"
NoneBool == "None"

EMPTY_FRAME_ERROR == [closed |-> TRUE, leftover |-> <<>>]
EMPTY_FRAME == [closed |-> FALSE, leftover |-> <<>>]

---------------------------------------------------------------------------
(* Byte-string helpers *)

\* buf[a:b] of Python, for 0 <= a
Slice(buf, a, b) ==
    LET hi == IF b > Len(buf) THEN Len(buf) ELSE b
    IN  IF a >= hi THEN <<>> ELSE SubSeq(buf, a + 1, hi)

\* bit n (0 = least significant) of byte b: (b >> n) & 1
Bit(b, n) == (b \div (2 ^ n)) % 2

RECURSIVE XorByte(_, _)
XorByte(a, b) ==
    IF a = 0 /\ b = 0 THEN 0
    ELSE (((a % 2) + (b % 2)) % 2) + 2 * XorByte(a \div 2, b \div 2)

\* helpers.websocket_mask: data[i] ^= mask[i % 4]
websocket_mask(mask, data) ==
    [i \in 1..Len(data) |-> XorByte(data[i], mask[((i - 1) % 4) + 1])]

\* struct big-endian unsigned integer of a byte string ("!H", "!Q")
RECURSIVE UnpackBE(_)
UnpackBE(bytes) ==
    IF bytes = <<>> THEN 0
    ELSE 256 * UnpackBE(SubSeq(bytes, 1, Len(bytes) - 1)) + bytes[Len(bytes)]

UNPACK_LEN3(data) == UnpackBE(data)
UNPACK_CLOSE_CODE(data) == UnpackBE(data)

IsCont(b) == b >= 128 /\ b <= 191

\* bytes.decode("utf-8"), strict: [ok, text], text the sequence of code points
RECURSIVE utf8_decode(_)
utf8_decode(bytes) ==
    IF bytes = <<>> THEN [ok |-> TRUE, text |-> <<>>]
    ELSE
      LET b0 == bytes[1]
          n  == Len(bytes)
          need == IF b0 < 128 THEN 0
                  ELSE IF b0 >= 194 /\ b0 <= 223 THEN 1
                  ELSE IF b0 >= 224 /\ b0 <= 239 THEN 2
                  ELSE IF b0 >= 240 /\ b0 <= 244 THEN 3
                  ELSE 4
          wellformed ==
              /\ need < 4
              /\ n >= need + 1
              /\ \A i \in 2..(need + 1) : IsCont(bytes[i])
              /\ (b0 = 224 => bytes[2] >= 160)
              /\ (b0 = 237 => bytes[2] <= 159)
              /\ (b0 = 240 => bytes[2] >= 144)
              /\ (b0 = 244 => bytes[2] <= 143)
          cp == IF need = 0 THEN b0
                ELSE IF need = 1 THEN (b0 - 192) * 64 + (bytes[2] - 128)
                ELSE IF need = 2 THEN
                    (b0 - 224) * 4096 + (bytes[2] - 128) * 64 + (bytes[3] - 128)
                ELSE (b0 - 240) * 262144 + (bytes[2] - 128) * 4096
                     + (bytes[3] - 128) * 64 + (bytes[4] - 128)
      IN  IF ~wellformed THEN [ok |-> FALSE, text |-> <<>>]
          ELSE LET rest == utf8_decode(Slice(bytes, need + 1, n))
               IN  IF rest.ok THEN [ok |-> TRUE, text |-> <<cp>> \o rest.text]
                   ELSE rest

\* ZLibDecompressor.decompress_sync(data, max_length) followed by a read of
\* unconsumed_tail.  zlib itself is not modelled: the stand-in codec drops the
\* deflate trailer and expands every compressed byte b into the two bytes
\* b, b; output beyond max_length (when max_length > 0) is withheld and
\* reported as unconsumed.
RECURSIVE Expand(_)
Expand(bytes) ==
    IF bytes = <<>> THEN <<>>
    ELSE <<bytes[1], bytes[1]>> \o Expand(Tail(bytes))

decompress_sync(data, max_length) ==
    LET body == IF Len(data) >= 4
                   /\ Slice(data, Len(data) - 4, Len(data)) = WS_DEFLATE_TRAILING
                THEN Slice(data, 0, Len(data) - 4) ELSE data
        full == Expand(body)
    IN  IF max_length > 0 /\ Len(full) > max_length
        THEN [out |-> Slice(full, 0, max_length),
              unconsumed_tail |-> Slice(full, max_length, Len(full))]
        ELSE [out |-> full, unconsumed_tail |-> <<>>]

---------------------------------------------------------------------------
(* WebSocketReader.__init__ *)

NewReader(max_msg_size, compress) ==
    [ max_msg_size        |-> max_msg_size,
      exc                 |-> NoExc,
      partial             |-> <<>>,
      state               |-> READ_HEADER,
      opcode              |-> NoneInt,
      frame_fin           |-> FALSE,
      frame_opcode        |-> NoneInt,
      frame_payload       |-> <<>>,
      tail                |-> <<>>,
      has_mask            |-> FALSE,
      frame_mask          |-> <<>>,
      payload_length      |-> 0,
      payload_length_flag |-> 0,
      compressed          |-> NoneBool,
      decompressobj       |-> FALSE,
      compress            |-> compress ]

---------------------------------------------------------------------------
(* WebSocketReader.parse_frame *)

\* A raise inside parse_frame: the fields written so far stay, the list of
\* frames parsed so far is discarded with the call, _tail is not stored.
ParseRaise(r, code) == [r |-> r, frames |-> <<>>, err |-> code]

\* the return of parse_frame without the unconsumed bytes being kept
ParseReturn_NoTail(r, buf, start_pos, frames) ==
    [r |-> [r EXCEPT !.tail = <<>>], frames |-> frames, err |-> NoExc]

\* break out of the while loop: self._tail = buf[start_pos:]; return frames
ParseReturn(r, buf, start_pos, frames) ==
    [r |-> [r EXCEPT !.tail = Slice(buf, start_pos, Len(buf))],
     frames |-> frames, err |-> NoExc]

\* the READ_HEADER block without the two tests of control frames
ReadHeader_NoControlTests(r, buf, start_pos) ==
    LET first_byte  == buf[start_pos + 1]
        second_byte == buf[start_pos + 2]
        fin    == Bit(first_byte, 7)
        rsv1   == Bit(first_byte, 6)
        rsv2   == Bit(first_byte, 5)
        rsv3   == Bit(first_byte, 4)
        opcode == first_byte % 16
        has_mask == Bit(second_byte, 7)
        length   == second_byte % 128
    IN  IF rsv2 = 1 \/ rsv3 = 1 \/ (rsv1 = 1 /\ ~r.compress)
          THEN [r |-> r, err |-> PROTOCOL_ERROR]
        ELSE IF ~(r.frame_fin \/ r.compressed = NoneBool) /\ rsv1 = 1
          THEN [r |-> r, err |-> PROTOCOL_ERROR]
        ELSE
          [r |-> [r EXCEPT
                    !.compressed =
                        IF r.frame_fin \/ r.compressed = NoneBool
                        THEN (IF rsv1 = 1 THEN "True" ELSE "False")
                        ELSE @,
                    !.frame_fin = (fin = 1),
                    !.frame_opcode = opcode,
                    !.has_mask = (has_mask = 1),
                    !.payload_length_flag = length,
                    !.state = READ_PAYLOAD_LENGTH],
           err |-> NoExc]

\* the READ_HEADER block, entered with at least two bytes available
ReadHeader(r, buf, start_pos) ==
    LET first_byte  == buf[start_pos + 1]
        second_byte == buf[start_pos + 2]
        fin    == Bit(first_byte, 7)
        rsv1   == Bit(first_byte, 6)
        rsv2   == Bit(first_byte, 5)
        rsv3   == Bit(first_byte, 4)
        opcode == first_byte % 16
        has_mask == Bit(second_byte, 7)
        length   == second_byte % 128
    IN  IF rsv2 = 1 \/ rsv3 = 1 \/ (rsv1 = 1 /\ ~r.compress)
          THEN [r |-> r, err |-> PROTOCOL_ERROR]
        ELSE IF opcode > 7 /\ fin = 0
          THEN [r |-> r, err |-> PROTOCOL_ERROR]
        ELSE IF opcode > 7 /\ length > 125
          THEN [r |-> r, err |-> PROTOCOL_ERROR]
        ELSE IF ~(r.frame_fin \/ r.compressed = NoneBool) /\ rsv1 = 1
          THEN [r |-> r, err |-> PROTOCOL_ERROR]
        ELSE
          [r |-> [r EXCEPT
                    !.compressed =
                        IF r.frame_fin \/ r.compressed = NoneBool
                        THEN (IF rsv1 = 1 THEN "True" ELSE "False")
                        ELSE @,
                    !.frame_fin = (fin = 1),
                    !.frame_opcode = opcode,
                    !.has_mask = (has_mask = 1),
                    !.payload_length_flag = length,
                    !.state = READ_PAYLOAD_LENGTH],
           err |-> NoExc]

RECURSIVE ParseLoop(_, _, _, _)
ParseLoop(r, buf, start_pos, frames) ==
    LET buf_length == Len(buf) IN
    IF r.state = READ_HEADER THEN
        IF buf_length - start_pos < 2 THEN ParseReturn(r, buf, start_pos, frames)
        ELSE LET h == ReadHeader(r, buf, start_pos)
             IN  IF h.err # NoExc THEN ParseRaise(h.r, h.err)
                 ELSE ParseLoop(h.r, buf, start_pos + 2, frames)
    ELSE IF r.state = READ_PAYLOAD_LENGTH THEN
        LET length_flag == r.payload_length_flag
            next_state == IF r.has_mask THEN READ_PAYLOAD_MASK ELSE READ_PAYLOAD
        IN  IF length_flag = 126 THEN
                IF buf_length - start_pos < 2
                THEN ParseReturn(r, buf, start_pos, frames)
                ELSE ParseLoop(
                       [r EXCEPT !.payload_length =
                                    buf[start_pos + 1] * 256 + buf[start_pos + 2],
                                 !.state = next_state],
                       buf, start_pos + 2, frames)
            ELSE IF length_flag > 126 THEN
                IF buf_length - start_pos < 8
                THEN ParseReturn(r, buf, start_pos, frames)
                ELSE ParseLoop(
                       [r EXCEPT !.payload_length =
                                    UNPACK_LEN3(Slice(buf, start_pos, start_pos + 8)),
                                 !.state = next_state],
                       buf, start_pos + 8, frames)
            ELSE ParseLoop([r EXCEPT !.payload_length = length_flag,
                                     !.state = next_state],
                           buf, start_pos, frames)
    ELSE IF r.state = READ_PAYLOAD_MASK THEN
        IF buf_length - start_pos < 4 THEN ParseReturn(r, buf, start_pos, frames)
        ELSE ParseLoop([r EXCEPT !.frame_mask = Slice(buf, start_pos, start_pos + 4),
                                 !.state = READ_PAYLOAD],
                       buf, start_pos + 4, frames)
    ELSE \* READ_PAYLOAD
        LET length == r.payload_length
            chunk_len == buf_length - start_pos
            all == length >= chunk_len
            left == IF all THEN length - chunk_len ELSE 0
            payload == r.frame_payload \o
                       (IF all THEN Slice(buf, start_pos, buf_length)
                        ELSE Slice(buf, start_pos, start_pos + length))
            new_pos == IF all THEN buf_length ELSE start_pos + length
        IN  IF left # 0
            THEN ParseReturn([r EXCEPT !.payload_length = left,
                                       !.frame_payload = payload],
                             buf, new_pos, frames)
            ELSE LET unmasked == IF r.has_mask
                                 THEN websocket_mask(r.frame_mask, payload)
                                 ELSE payload
                 IN  ParseLoop(
                       [r EXCEPT !.payload_length = 0,
                                 !.frame_payload = <<>>,
                                 !.state = READ_HEADER],
                       buf, new_pos,
                       Append(frames, [fin |-> r.frame_fin,
                                       opcode |-> r.frame_opcode,
                                       payload |-> unmasked,
                                       compressed |-> r.compressed]))

\* parse_frame without "buf = self._tail + buf": the bytes kept from the
\* previous call are dropped
parse_frame_DropTail(r, buf) ==
    ParseLoop([r EXCEPT !.tail = <<>>], buf, 0, <<>>)

\* parse_frame applying the mask whenever a masking key is stored
parse_frame_StaleMask(r, buf) ==
    ParseLoop([r EXCEPT !.tail = <<>>, !.has_mask = (r.frame_mask # <<>>)],
              r.tail \o buf, 0, <<>>)

parse_frame(r, buf) ==
    IF r.tail # <<>>
    THEN ParseLoop([r EXCEPT !.tail = <<>>], r.tail \o buf, 0, <<>>)
    ELSE ParseLoop(r, buf, 0, <<>>)

---------------------------------------------------------------------------
(* The calls on the queue: queue.feed_data(msg), set_exception(queue, exc), *)
(* queue.feed_eof().  A message is (data, extra, type).                     *)

Message(type, data, extra) ==
    [ev |-> "feed_data", type |-> type, data |-> data, extra |-> extra]

SetException(code) ==
    [ev |-> "set_exception", type |-> "ERROR", data |-> <<code>>, extra |-> <<>>]

QueueEof == [ev |-> "feed_eof", type |-> "EOF", data |-> <<>>, extra |-> <<>>]

---------------------------------------------------------------------------
(* WebSocketReader._feed_data *)

\* the size test with > in place of >=
TooBig_Strict(r, n) == r.max_msg_size # 0 /\ n > r.max_msg_size

\* size test of _partial and of assembled_payload
TooBig(r, n) == r.max_msg_size # 0 /\ n >= r.max_msg_size

\* the fragment handler that does not keep the payload
LoadFragment_DropPayload(r, frame) ==
    LET is_continuation == frame.opcode = OP_CODE_CONTINUATION
        r1 == [r EXCEPT !.opcode = IF ~is_continuation THEN frame.opcode ELSE @]
    IN  [r |-> r1, out |-> <<>>, err |-> NoExc]

\* if not fin: the fragment is kept in _partial
LoadFragment(r, frame) ==
    LET is_continuation == frame.opcode = OP_CODE_CONTINUATION
        r1 == [r EXCEPT !.opcode = IF ~is_continuation THEN frame.opcode ELSE @,
                        !.partial = @ \o frame.payload]
    IN  IF TooBig(r1, Len(r1.partial))
        THEN [r |-> r1, out |-> <<>>, err |-> MESSAGE_TOO_BIG]
        ELSE [r |-> r1, out |-> <<>>, err |-> NoExc]

\* from "if compressed:" to the hand-over of the text or binary message
Finalize(r, opcode, assembled_payload, compressed) ==
    LET d  == decompress_sync(assembled_payload \o WS_DEFLATE_TRAILING, r.max_msg_size)
        r1 == IF compressed = "True" THEN [r EXCEPT !.decompressobj = TRUE] ELSE r
        payload_merged == IF compressed = "True" THEN d.out ELSE assembled_payload
        text == utf8_decode(payload_merged)
    IN  IF compressed = "True" /\ d.unconsumed_tail # <<>>
          THEN [r |-> r1, out |-> <<>>, err |-> MESSAGE_TOO_BIG]
        ELSE IF opcode = OP_CODE_TEXT
          THEN IF ~text.ok
               THEN [r |-> r1, out |-> <<>>, err |-> INVALID_TEXT]
               ELSE [r |-> r1, out |-> <<Message("TEXT", text.text, <<>>)>>,
                     err |-> NoExc]
        ELSE [r |-> r1, out |-> <<Message("BINARY", payload_merged, <<>>)>>,
              err |-> NoExc]

\* a fin frame with opcode TEXT, BINARY or CONTINUATION
LoadMessage(r, frame) ==
    LET is_continuation == frame.opcode = OP_CODE_CONTINUATION
        has_partial == r.partial # <<>>
        opcode == IF is_continuation THEN r.opcode ELSE frame.opcode
        r1 == IF is_continuation THEN [r EXCEPT !.opcode = NoneInt] ELSE r
        assembled_payload == IF has_partial THEN r.partial \o frame.payload
                             ELSE frame.payload
        r2 == IF has_partial THEN [r1 EXCEPT !.partial = <<>>] ELSE r1
    IN  IF is_continuation /\ r.opcode = NoneInt
          THEN [r |-> r, out |-> <<>>, err |-> PROTOCOL_ERROR]
        ELSE IF ~is_continuation /\ has_partial
          THEN [r |-> r, out |-> <<>>, err |-> PROTOCOL_ERROR]
        ELSE IF TooBig(r2, Len(assembled_payload))
          THEN [r |-> r2, out |-> <<>>, err |-> MESSAGE_TOO_BIG]
        ELSE Finalize(r2, opcode, assembled_payload, frame.compressed)

\* the close frame handler without the test of the close code
LoadClose_AnyCode(r, frame) ==
    LET payload == frame.payload
        close_code == UNPACK_CLOSE_CODE(Slice(payload, 0, 2))
        close_message == utf8_decode(Slice(payload, 2, Len(payload)))
    IN  IF Len(payload) >= 2 THEN
            IF ~close_message.ok
              THEN [r |-> r, out |-> <<>>, err |-> INVALID_TEXT]
            ELSE [r |-> r,
                  out |-> <<Message("CLOSE", <<close_code>>, close_message.text)>>,
                  err |-> NoExc]
        ELSE IF payload # <<>>
          THEN [r |-> r, out |-> <<>>, err |-> PROTOCOL_ERROR]
        ELSE [r |-> r, out |-> <<Message("CLOSE", <<0>>, <<>>)>>, err |-> NoExc]

\* elif opcode == OP_CODE_CLOSE
LoadClose(r, frame) ==
    LET payload == frame.payload
        close_code == UNPACK_CLOSE_CODE(Slice(payload, 0, 2))
        close_message == utf8_decode(Slice(payload, 2, Len(payload)))
    IN  IF Len(payload) >= 2 THEN
            IF close_code < 3000 /\ close_code \notin ALLOWED_CLOSE_CODES
              THEN [r |-> r, out |-> <<>>, err |-> PROTOCOL_ERROR]
            ELSE IF ~close_message.ok
              THEN [r |-> r, out |-> <<>>, err |-> INVALID_TEXT]
            ELSE [r |-> r,
                  out |-> <<Message("CLOSE", <<close_code>>, close_message.text)>>,
                  err |-> NoExc]
        ELSE IF payload # <<>>
          THEN [r |-> r, out |-> <<>>, err |-> PROTOCOL_ERROR]
        ELSE [r |-> r, out |-> <<Message("CLOSE", <<0>>, <<>>)>>, err |-> NoExc]

\* a ping or pong that resets the message being assembled
HandleFrame_ControlResets(r, frame) ==
    IF frame.opcode \in {OP_CODE_TEXT, OP_CODE_BINARY, OP_CODE_CONTINUATION}
      THEN IF ~frame.fin THEN LoadFragment(r, frame) ELSE LoadMessage(r, frame)
    ELSE IF frame.opcode = OP_CODE_CLOSE
      THEN LoadClose(r, frame)
    ELSE IF frame.opcode = OP_CODE_PING
      THEN [r |-> [r EXCEPT !.partial = <<>>, !.opcode = NoneInt],
            out |-> <<Message("PING", frame.payload, <<>>)>>, err |-> NoExc]
    ELSE IF frame.opcode = OP_CODE_PONG
      THEN [r |-> [r EXCEPT !.partial = <<>>, !.opcode = NoneInt],
            out |-> <<Message("PONG", frame.payload, <<>>)>>, err |-> NoExc]
    ELSE [r |-> r, out |-> <<>>, err |-> PROTOCOL_ERROR]

\* the loop body without the final else: frames of other opcodes are skipped
HandleFrame_UnknownSkipped(r, frame) ==
    IF frame.opcode \in {OP_CODE_TEXT, OP_CODE_BINARY, OP_CODE_CONTINUATION}
      THEN IF ~frame.fin THEN LoadFragment(r, frame) ELSE LoadMessage(r, frame)
    ELSE IF frame.opcode = OP_CODE_CLOSE
      THEN LoadClose(r, frame)
    ELSE IF frame.opcode = OP_CODE_PING
      THEN [r |-> r, out |-> <<Message("PING", frame.payload, <<>>)>>, err |-> NoExc]
    ELSE IF frame.opcode = OP_CODE_PONG
      THEN [r |-> r, out |-> <<Message("PONG", frame.payload, <<>>)>>, err |-> NoExc]
    ELSE [r |-> r, out |-> <<>>, err |-> NoExc]

\* the body of "for frame in self.parse_frame(data)"
HandleFrame(r, frame) ==
    IF frame.opcode \in {OP_CODE_TEXT, OP_CODE_BINARY, OP_CODE_CONTINUATION}
      THEN IF ~frame.fin THEN LoadFragment(r, frame) ELSE LoadMessage(r, frame)
    ELSE IF frame.opcode = OP_CODE_CLOSE
      THEN LoadClose(r, frame)
    ELSE IF frame.opcode = OP_CODE_PING
      THEN [r |-> r, out |-> <<Message("PING", frame.payload, <<>>)>>, err |-> NoExc]
    ELSE IF frame.opcode = OP_CODE_PONG
      THEN [r |-> r, out |-> <<Message("PONG", frame.payload, <<>>)>>, err |-> NoExc]
    ELSE [r |-> r, out |-> <<>>, err |-> PROTOCOL_ERROR]

\* the loop going on to the frames after the one that raised
RECURSIVE HandleFrames_KeepGoing(_, _, _)
HandleFrames_KeepGoing(r, frames, out) ==
    IF frames = <<>> THEN [r |-> r, out |-> out, err |-> NoExc]
    ELSE LET h == HandleFrame(r, Head(frames))
             rest == HandleFrames_KeepGoing(h.r, Tail(frames), out \o h.out)
         IN  IF h.err # NoExc THEN [rest EXCEPT !.err = h.err] ELSE rest

RECURSIVE HandleFrames(_, _, _)
HandleFrames(r, frames, out) ==
    IF frames = <<>> THEN [r |-> r, out |-> out, err |-> NoExc]
    ELSE LET h == HandleFrame(r, Head(frames))
         IN  IF h.err # NoExc THEN [r |-> h.r, out |-> out \o h.out, err |-> h.err]
             ELSE HandleFrames(h.r, Tail(frames), out \o h.out)

_feed_data(r, data) ==
    LET p == parse_frame(r, data)
    IN  IF p.err # NoExc THEN [r |-> p.r, out |-> <<>>, err |-> p.err]
        ELSE HandleFrames(p.r, p.frames, <<>>)

---------------------------------------------------------------------------
(* WebSocketReader.feed_data and feed_eof *)

\* feed_data returning the chunk as leftover from the call that raised
feed_data_LeftoverChunk(r, data) ==
    IF r.exc # NoExc
    THEN [r |-> r, out |-> <<>>, ret |-> [closed |-> TRUE, leftover |-> data]]
    ELSE LET f == _feed_data(r, data)
         IN  IF f.err # NoExc
             THEN [r |-> [f.r EXCEPT !.exc = f.err],
                   out |-> f.out \o <<SetException(f.err)>>,
                   ret |-> [closed |-> TRUE, leftover |-> data]]
             ELSE [r |-> f.r, out |-> f.out, ret |-> EMPTY_FRAME]

\* feed_data without the test of self._exc: a failed reader parses on
feed_data_NoLatch(r, data) ==
    LET f == _feed_data(r, data)
    IN  IF f.err # NoExc
        THEN [r |-> [f.r EXCEPT !.exc = f.err],
              out |-> f.out \o <<SetException(f.err)>>,
              ret |-> EMPTY_FRAME_ERROR]
        ELSE [r |-> f.r, out |-> f.out,
              ret |-> IF r.exc # NoExc THEN [closed |-> TRUE, leftover |-> data]
                      ELSE EMPTY_FRAME]

\* [r: the reader afterwards, out: the calls made on the queue, ret: the result]
feed_data(r, data) ==
    IF r.exc # NoExc
    THEN [r |-> r, out |-> <<>>, ret |-> [closed |-> TRUE, leftover |-> data]]
    ELSE LET f == _feed_data(r, data)
         IN  IF f.err # NoExc
             THEN [r |-> [f.r EXCEPT !.exc = f.err],
                   out |-> f.out \o <<SetException(f.err)>>,
                   ret |-> EMPTY_FRAME_ERROR]
             ELSE [r |-> f.r, out |-> f.out, ret |-> EMPTY_FRAME]

feed_eof(q) == Append(q, QueueEof)

---------------------------------------------------------------------------
(* The environment: the peer and the transport *)

\* frames the peer writes in a connection
MaxFrames == 3

\* The frames a peer may write, as they appear on the wire (decimal bytes;
\* the comment gives them in hexadecimal).

\* errors of every kind among ordinary traffic
Frames ==
    { <<1, 1, 97>>,        \* 01 01 61     TEXT, fin clear, "a"
      <<128, 1, 99>>,      \* 80 01 63     CONTINUATION, fin, "c"
      <<137, 0>>,          \* 89 00        PING, empty
      <<129, 1, 195>>,     \* 81 01 C3     TEXT, fin, invalid UTF-8
      <<130, 2, 98, 98>>,  \* 82 02 62 62  BINARY, fin, "bb"
      <<161, 0>>,          \* A1 00        TEXT, fin, RSV2
      <<131, 0>> }         \* 83 00        opcode 3

\* every field of the frame layout: mask, 16-bit and 64-bit lengths
ChunkFrames ==
    { <<1, 1, 97>>,                              \* 01 01 61  TEXT, fin clear, "a"
      <<128, 1, 99>>,                            \* 80 01 63  CONTINUATION, fin, "c"
      <<137, 0>>,                                \* 89 00     PING, empty
      <<130, 129, 1, 2, 3, 4, 99>>,              \* 82 81 01 02 03 04 63  BINARY, masked
      <<130, 126, 0, 1, 98>>,                    \* 82 7E 00 01 62  BINARY, 16-bit length
      <<130, 127, 0, 0, 0, 0, 0, 0, 0, 1, 98>>,  \* 82 7F 00.. 01 62  BINARY, 64-bit length
      <<161, 0>>,                                \* A1 00     TEXT, fin, RSV2
      <<128, 0>> }                               \* 80 00     CONTINUATION, fin, empty

\* fragmented messages, compressed and not, and control frames between fragments
FragFrames ==
    { <<1, 1, 97>>,      \* 01 01 61   TEXT, fin clear, "a"
      <<2, 1, 98>>,      \* 02 01 62   BINARY, fin clear, "b"
      <<65, 1, 97>>,     \* 41 01 61   TEXT, fin clear, RSV1
      <<0, 1, 98>>,      \* 00 01 62   CONTINUATION, fin clear, "b"
      <<128, 1, 99>>,    \* 80 01 63   CONTINUATION, fin, "c"
      <<129, 1, 97>>,    \* 81 01 61   TEXT, fin, "a"
      <<137, 0>>,        \* 89 00      PING, empty
      <<136, 2, 3, 232>> } \* 88 02 03 E8  CLOSE, code 1000

\* uncompressed data messages of total length 0 to 3
SizeFrames ==
    { <<1, 1, 97>>,        \* 01 01 61     TEXT, fin clear, "a"
      <<0, 1, 98>>,        \* 00 01 62     CONTINUATION, fin clear, "b"
      <<128, 1, 99>>,      \* 80 01 63     CONTINUATION, fin, "c"
      <<128, 0>>,          \* 80 00        CONTINUATION, fin, empty
      <<130, 1, 98>>,      \* 82 01 62     BINARY, fin, "b"
      <<130, 2, 98, 98>>,  \* 82 02 62 62  BINARY, fin, "bb"
      <<137, 0>> }         \* 89 00        PING, empty

\* WebSocketReader(queue, max_msg_size, compress) for one of the given
\* <<max_msg_size, compress>> pairs; nothing written, nothing read
InitOf(configs) ==
    /\ \E c \in configs : reader = NewReader(c[1], c[2])
    /\ sink = <<>>
    /\ ret = EMPTY_FRAME
    /\ wire = <<>>
    /\ sent = <<>>

\* the peer writes one more frame
PeerSend(f) ==
    /\ Len(sent) < MaxFrames
    /\ wire' = wire \o f
    /\ sent' = Append(sent, f)
    /\ UNCHANGED <<reader, sink, ret>>

\* the transport reads the next n bytes and calls reader.feed_data with them
CallFeedData(n) ==
    LET res == feed_data(reader, SubSeq(wire, 1, n))
    IN  /\ reader' = res.r
        /\ sink' = sink \o res.out
        /\ ret' = res.ret
        /\ wire' = SubSeq(wire, n + 1, Len(wire))
        /\ UNCHANGED sent

\* the transport reports the end of the stream, once
CallFeedEof ==
    /\ \A i \in 1..Len(sink) : sink[i].ev # "feed_eof"
    /\ sink' = feed_eof(sink)
    /\ UNCHANGED <<reader, ret, wire, sent>>

\* The connection is open: feed_eof has not been called, and feed_data has
\* not told the transport that the reader is closed.
Open ==
    /\ ~ret.closed
    /\ \A i \in 1..Len(sink) : sink[i].ev # "feed_eof"

\* PeerSend, CallFeedData and CallFeedEof as a transport drives them: it
\* stops reading once feed_data returned closed, and nothing is written or
\* read after the end of the stream.
PeerWrite(f) == Open /\ PeerSend(f)

TransportRead(n) == Open /\ CallFeedData(n)

ConnectionLost == Open /\ CallFeedEof

\* Spec: the reader driven by any caller, in any order, also after it has
\* failed and after feed_eof.
Init == InitOf({<<2, TRUE>>, <<0, FALSE>>})

Next ==
    \/ \E f \in Frames : PeerSend(f)
    \/ \E n \in 1..Len(wire) : CallFeedData(n)
    \/ CallFeedEof

Spec == Init /\ [][Next]_vars

\* SpecChunk, SpecFrag, SpecSize: the reader driven by a transport.
InitChunk == InitOf({<<0, TRUE>>, <<2, TRUE>>})

NextChunk ==
    \/ \E f \in ChunkFrames : PeerWrite(f)
    \/ \E n \in 1..Len(wire) : TransportRead(n)
    \/ ConnectionLost

SpecChunk == InitChunk /\ [][NextChunk]_vars

InitFrag == InitOf({<<0, TRUE>>})

NextFrag ==
    \/ \E f \in FragFrames : PeerWrite(f)
    \/ \E n \in 1..Len(wire) : TransportRead(n)
    \/ ConnectionLost

SpecFrag == InitFrag /\ [][NextFrag]_vars

InitSize == InitOf({<<0, FALSE>>, <<2, FALSE>>, <<3, TRUE>>})

NextSize ==
    \/ \E f \in SizeFrames : PeerWrite(f)
    \/ \E n \in 1..Len(wire) : TransportRead(n)
    \/ ConnectionLost

SpecSize == InitSize /\ [][NextSize]_vars

\* SpecClose: close frames of every payload shape, with codes on both sides
\* of 1000 and of 3000
CloseFrames ==
    { <<136, 0>>,               \* 88 00           CLOSE, empty
      <<136, 1, 3>>,            \* 88 01 03        CLOSE, 1-byte payload
      <<136, 2, 3, 231>>,       \* 88 02 03 E7     CLOSE, code 999
      <<136, 2, 3, 232>>,       \* 88 02 03 E8     CLOSE, code 1000
      <<136, 2, 11, 183>>,      \* 88 02 0B B7     CLOSE, code 2999
      <<136, 2, 11, 184>>,      \* 88 02 0B B8     CLOSE, code 3000
      <<136, 3, 3, 232, 97>>,   \* 88 03 03 E8 61  CLOSE, code 1000, reason "a"
      <<136, 3, 3, 232, 195>> } \* 88 03 03 E8 C3  CLOSE, code 1000, invalid UTF-8

InitClose == InitOf({<<0, TRUE>>})

NextClose ==
    \/ \E f \in CloseFrames : PeerWrite(f)
    \/ \E n \in 1..Len(wire) : TransportRead(n)
    \/ ConnectionLost

SpecClose == InitClose /\ [][NextClose]_vars

\* SpecHdr: frame headers that break a rule of the header, alone or followed
\* by nothing of the frame, among control and text frames that break none
HdrFrames ==
    { <<137, 0>>,        \* 89 00      PING, empty
      <<138, 1, 97>>,    \* 8A 01 61   PONG, "a"
      <<136, 0>>,        \* 88 00      CLOSE, empty
      <<129, 1, 97>>,    \* 81 01 61   TEXT, fin, "a"
      <<193, 1, 97>>,    \* C1 01 61   TEXT, fin, RSV1
      <<161, 0>>,        \* A1 00      TEXT, fin, RSV2
      <<145, 0>>,        \* 91 00      TEXT, fin, RSV3
      <<9, 0>>,          \* 09 00      PING, fin clear, empty
      <<137, 126>>,      \* 89 7E      PING, length flag 126, header only
      <<136, 255>> }     \* 88 FF      CLOSE, masked, length flag 127, header only

InitHdr == InitOf({<<0, FALSE>>, <<0, TRUE>>})

NextHdr ==
    \/ \E f \in HdrFrames : PeerWrite(f)
    \/ \E n \in 1..Len(wire) : TransportRead(n)
    \/ ConnectionLost

SpecHdr == InitHdr /\ [][NextHdr]_vars

\* SpecAsm: messages in assembly: fragments with and without payload, RSV1
\* on a continuation frame, a ping between the fragments
AsmFrames ==
    { <<1, 0>>,          \* 01 00      TEXT, fin clear, empty
      <<1, 1, 97>>,      \* 01 01 61   TEXT, fin clear, "a"
      <<129, 1, 97>>,    \* 81 01 61   TEXT, fin, "a"
      <<128, 1, 99>>,    \* 80 01 63   CONTINUATION, fin, "c"
      <<192, 1, 99>>,    \* C0 01 63   CONTINUATION, fin, RSV1
      <<137, 0>> }       \* 89 00      PING, empty

InitAsm == InitOf({<<0, TRUE>>})

NextAsm ==
    \/ \E f \in AsmFrames : PeerWrite(f)
    \/ \E n \in 1..Len(wire) : TransportRead(n)
    \/ ConnectionLost

SpecAsm == InitAsm /\ [][NextAsm]_vars

\* SpecMask: binary frames, masked and not, with payloads longer than the
\* masking key and with 7-bit, 16-bit and 64-bit lengths
MaskFrames ==
    { <<130, 133, 1, 2, 3, 4, 10, 20, 30, 40, 50>>,  \* 82 85 01 02 03 04 0A 14 1E 28 32  masked, 5 bytes
      <<130, 2, 98, 98>>,                            \* 82 02 62 62  "bb"
      <<130, 254, 0, 1, 5, 6, 7, 8, 99>>,            \* 82 FE 00 01 05 06 07 08 63  masked, 16-bit length
      <<130, 127, 0, 0, 0, 0, 0, 0, 0, 1, 98>> }     \* 82 7F 00.. 01 62  64-bit length

InitMask == InitOf({<<0, TRUE>>})

NextMask ==
    \/ \E f \in MaskFrames : PeerWrite(f)
    \/ \E n \in 1..Len(wire) : TransportRead(n)
    \/ ConnectionLost

SpecMask == InitMask /\ [][NextMask]_vars

\* SpecOp: frames with opcodes that are not defined (3, 7, 11, 15), fin set
\* and clear, among text and ping frames
OpFrames ==
    { <<131, 0>>,        \* 83 00      opcode 3, fin, empty
      <<3, 1, 97>>,      \* 03 01 61   opcode 3, fin clear, "a"
      <<135, 1, 97>>,    \* 87 01 61   opcode 7, fin, "a"
      <<139, 0>>,        \* 8B 00      opcode 11, fin, empty
      <<143, 1, 97>>,    \* 8F 01 61   opcode 15, fin, "a"
      <<11, 0>>,         \* 0B 00      opcode 11, fin clear, empty
      <<1, 1, 97>>,      \* 01 01 61   TEXT, fin clear, "a"
      <<129, 1, 97>>,    \* 81 01 61   TEXT, fin, "a"
      <<137, 0>> }       \* 89 00      PING, empty

InitOp == InitOf({<<0, TRUE>>})

NextOp ==
    \/ \E f \in OpFrames : PeerWrite(f)
    \/ \E n \in 1..Len(wire) : TransportRead(n)
    \/ ConnectionLost

SpecOp == InitOp /\ [][NextOp]_vars

---------------------------------------------------------------------------
(* What the properties below speak about *)

RECURSIVE Flatten(_)
Flatten(frames) ==
    IF frames = <<>> THEN <<>> ELSE Head(frames) \o Flatten(Tail(frames))

\* the byte stream handed to feed_data so far, over all calls
Delivered ==
    LET all == Flatten(sent) IN SubSeq(all, 1, Len(all) - Len(wire))

\* the calls on the queue other than feed_eof
QueueCalls == SelectSeq(sink, LAMBDA e : e.ev # "feed_eof")

\* the messages handed to the queue
Messages == SelectSeq(sink, LAMBDA e : e.ev = "feed_data")

\* the set_exception calls
Exceptions == SelectSeq(sink, LAMBDA e : e.ev = "set_exception")

\* a new reader fed the bytes one feed_data call per byte
RECURSIVE FeedEach(_, _, _)
FeedEach(r, out, bytes) ==
    IF bytes = <<>> THEN [r |-> r, out |-> out]
    ELSE LET res == feed_data(r, <<Head(bytes)>>)
         IN  FeedEach(res.r, out \o res.out, Tail(bytes))

ByteWise == FeedEach(NewReader(reader.max_msg_size, reader.compress), <<>>, Delivered)

ByteWiseMessages == SelectSeq(ByteWise.out, LAMBDA e : e.ev = "feed_data")

\* the bytes up to and including the one at which the stream first fails
\* (all of them if it does not)
RECURSIVE UpToError(_, _)
UpToError(r, bytes) ==
    IF bytes = <<>> THEN <<>>
    ELSE LET res == feed_data(r, <<Head(bytes)>>)
         IN  IF res.r.exc # NoExc THEN <<Head(bytes)>>
             ELSE <<Head(bytes)>> \o UpToError(res.r, Tail(bytes))

\* the header fields of a frame as written, and the payload of an unmasked
\* frame with a 7-bit length
FrameFin(f) == Bit(f[1], 7) = 1
FrameRsv1(f) == Bit(f[1], 6) = 1
FrameOpcode(f) == f[1] % 16
FramePayload(f) == SubSeq(f, 3, Len(f))

\* the frames of which every byte has been delivered
RECURSIVE WholeFrames(_, _)
WholeFrames(frames, n) ==
    IF frames = <<>> \/ Len(Head(frames)) > n THEN <<>>
    ELSE <<Head(frames)>> \o WholeFrames(Tail(frames), n - Len(Head(frames)))

DeliveredFrames == WholeFrames(sent, Len(Delivered))

\* The calls a sequence of frames is to produce on the queue of a reader with
\* max_msg_size M, by the rules of RFC 6455 and RFC 7692 for well-formed
\* traffic: a message is a TEXT or BINARY frame followed by CONTINUATION
\* frames up to the first with fin set; RSV1 is set on the first frame of a
\* compressed message only; control frames are whole and may come between
\* the fragments.  st = [ok, calls, open, type, rsv1, acc, failed].
ExpectedData(type, rsv1, acc, M) ==
    LET raw == IF rsv1 THEN decompress_sync(acc \o WS_DEFLATE_TRAILING, M).out ELSE acc
    IN  IF type = OP_CODE_TEXT THEN Message("TEXT", utf8_decode(raw).text, <<>>)
        ELSE Message("BINARY", raw, <<>>)

ExpectedControl(f) ==
    LET p == FramePayload(f)
    IN  IF FrameOpcode(f) = OP_CODE_PING THEN Message("PING", p, <<>>)
        ELSE IF FrameOpcode(f) = OP_CODE_PONG THEN Message("PONG", p, <<>>)
        ELSE IF p = <<>> THEN Message("CLOSE", <<0>>, <<>>)
        ELSE Message("CLOSE", <<p[1] * 256 + p[2]>>,
                     utf8_decode(SubSeq(p, 3, Len(p))).text)

PlainFrame(f) ==
    /\ Len(f) >= 2
    /\ Bit(f[1], 5) = 0 /\ Bit(f[1], 4) = 0
    /\ f[2] < 126 /\ Len(f) = 2 + f[2]
    /\ FrameOpcode(f) \in {OP_CODE_CONTINUATION, OP_CODE_TEXT, OP_CODE_BINARY,
                           OP_CODE_CLOSE, OP_CODE_PING, OP_CODE_PONG}

RECURSIVE Expected(_, _, _)
Expected(frames, M, st) ==
    IF frames = <<>> \/ ~st.ok \/ st.failed THEN st
    ELSE
      LET f == Head(frames)
          op == FrameOpcode(f)
          data == op \in {OP_CODE_CONTINUATION, OP_CODE_TEXT, OP_CODE_BINARY}
          wellformed ==
              /\ PlainFrame(f)
              /\ op \in {OP_CODE_TEXT, OP_CODE_BINARY} => ~st.open
              /\ op = OP_CODE_CONTINUATION => st.open /\ ~FrameRsv1(f)
              /\ ~data => FrameFin(f) /\ ~FrameRsv1(f)
              /\ op = OP_CODE_CLOSE => Len(f) # 3
          type == IF op = OP_CODE_CONTINUATION THEN st.type ELSE op
          rsv1 == IF op = OP_CODE_CONTINUATION THEN st.rsv1 ELSE FrameRsv1(f)
          acc == st.acc \o FramePayload(f)
      IN  IF ~wellformed THEN [st EXCEPT !.ok = FALSE]
          ELSE IF ~data
            THEN Expected(Tail(frames), M,
                          [st EXCEPT !.calls = Append(@, ExpectedControl(f))])
          ELSE IF M > 0 /\ Len(acc) >= M
            THEN [st EXCEPT !.calls = Append(@, SetException(MESSAGE_TOO_BIG)),
                            !.failed = TRUE]
          ELSE IF ~FrameFin(f)
            THEN Expected(Tail(frames), M,
                          [st EXCEPT !.open = TRUE, !.type = type, !.rsv1 = rsv1,
                                     !.acc = acc])
          ELSE Expected(Tail(frames), M,
                        [st EXCEPT !.open = FALSE, !.acc = <<>>,
                                   !.calls = Append(@, ExpectedData(type, rsv1, acc, M))])

ExpectedOf(frames) ==
    Expected(frames, reader.max_msg_size,
             [ok |-> TRUE, calls |-> <<>>, open |-> FALSE, type |-> OP_CODE_TEXT,
              rsv1 |-> FALSE, acc |-> <<>>, failed |-> FALSE])

IsData(e) == e.ev = "feed_data" /\ e.type \in {"TEXT", "BINARY"}

\* the reader is between two frames
AtFrameBoundary ==
    reader.exc = NoExc /\ reader.state = READ_HEADER /\ reader.tail = <<>>

\* the chunk of a step that is a feed_data call (the bytes that left the wire)
IsFeed == Len(wire') < Len(wire)
Chunk == SubSeq(wire, 1, Len(wire) - Len(wire'))

---------------------------------------------------------------------------
(* C1: chunk-boundary invariance for error-free streams.  Whenever the bytes *)
(* delivered so far, fed one byte per call, raise no error, the reader fed   *)
(* the same bytes in the chunks the transport chose has made the same calls  *)
(* on the queue and is in the same state, field by field (parse state,       *)
(* partial, message opcode, compressed, remaining payload length, tail and   *)
(* all the others).  Any two partitionings agree with the byte-wise one,     *)
(* hence with each other.                                                    *)
C1_ChunkInvariance ==
    ByteWise.r.exc = NoExc =>
        /\ reader = ByteWise.r
        /\ QueueCalls = ByteWise.out

\* error-free, two messages delivered, suspended inside the masking key
C1_Witness ==
    /\ ByteWise.r.exc = NoExc
    /\ Len(Messages) >= 2
    /\ reader.state = READ_PAYLOAD_MASK
    /\ Len(reader.tail) >= 2

(* C2: chunk-boundary invariance for streams with a violation.  Whenever the *)
(* delivered bytes, fed one byte per call, end in a fatal error, the reader  *)
(* fed in chunks has failed with the same close code and the queue has       *)
(* received the same messages before set_exception.                          *)
C2_ChunkInvarianceFatal ==
    ByteWise.r.exc # NoExc =>
        /\ reader.exc = ByteWise.r.exc
        /\ QueueCalls = ByteWise.out

(* C3 as stated: after every feed_data call the result is (False, b"") if   *)
(* the reader is not fatal, and (True, chunk), chunk being the whole chunk   *)
(* of that call, if the reader is fatal, whether the error was latched by    *)
(* an earlier call or raised by this one.                                    *)
C3_ReturnsChunkWhenFatal ==
    [][IsFeed =>
         IF reader'.exc # NoExc
         THEN ret' = [closed |-> TRUE, leftover |-> Chunk]
         ELSE ret' = [closed |-> FALSE, leftover |-> <<>>]]_vars

(* C3 amended: feed_data returns (False, b"") when the chunk is processed    *)
(* without error, (True, chunk) when the error was latched by an earlier     *)
(* call, and (True, b"") when the error is raised by the current call.       *)
C3_ReturnValue ==
    [][IsFeed =>
         IF reader.exc # NoExc
         THEN ret' = [closed |-> TRUE, leftover |-> Chunk]
         ELSE IF reader'.exc # NoExc
         THEN ret' = [closed |-> TRUE, leftover |-> <<>>]
         ELSE ret' = [closed |-> FALSE, leftover |-> <<>>]]_vars

\* the last call raised the error (every chunk has at least one byte, and
\* the leftover is empty)
C3_Witness ==
    /\ reader.exc # NoExc
    /\ ret = [closed |-> TRUE, leftover |-> <<>>]
    /\ Len(Messages) >= 1

(* C4: idempotent latching.  Once fatal is set, no step changes any reader   *)
(* field (so fatal is never cleared), every feed_data(c) returns (True, c)   *)
(* and makes no call on the queue, and the only call the queue ever receives *)
(* afterwards is the transport's feed_eof.                                   *)
C4_Latching ==
    [][reader.exc # NoExc =>
         /\ reader' = reader
         /\ sink' = sink \/ sink' = feed_eof(sink)
         /\ IsFeed => /\ ret' = [closed |-> TRUE, leftover |-> Chunk]
                      /\ sink' = sink]_vars

\* a later call on the failed reader has returned its chunk
C4_Witness ==
    /\ reader.exc # NoExc
    /\ ret.closed
    /\ Len(ret.leftover) >= 2
    /\ Len(Messages) >= 1

(* C5: error surfacing.  The reader is fatal exactly when the queue has      *)
(* received set_exception, which it receives at most once, with the error    *)
(* the reader latched, in the call that raised it; and no message is handed  *)
(* to the queue after set_exception, so no frame that follows the offending  *)
(* one is delivered: the messages delivered are among those that precede    *)
(* the first error of the byte stream.                                       *)
C5_ErrorSurfacing ==
    /\ Len(Exceptions) <= 1
    /\ reader.exc # NoExc <=> Exceptions = <<SetException(reader.exc)>>
    /\ \A i \in 1..Len(QueueCalls) :
          QueueCalls[i].ev = "set_exception" => i = Len(QueueCalls)
    /\ ret.closed <=> reader.exc # NoExc
    /\ Len(Messages) <= Len(ByteWiseMessages)
    /\ Messages = SubSeq(ByteWiseMessages, 1, Len(Messages))

\* the call that raised was given a message-bearing stream and at least one
\* whole frame after the offending byte
C5_Witness ==
    /\ ret = EMPTY_FRAME_ERROR
    /\ Len(Messages) >= 1
    /\ wire = <<>>
    /\ Len(Delivered) >=
         2 + Len(UpToError(NewReader(reader.max_msg_size, reader.compress), Delivered))

(* C6: a TEXT or BINARY frame, fin set or clear, that arrives while partial  *)
(* is non-empty (a message started by a TEXT or BINARY frame is in          *)
(* progress) raises PROTOCOL_ERROR, and neither appends its payload to       *)
(* partial nor overwrites message_opcode.                                    *)
C6_NonContinuationRejected ==
    [][(/\ IsFeed
        /\ AtFrameBoundary
        /\ reader.partial # <<>>
        /\ reader.opcode # NoneInt
        /\ Chunk \in FragFrames
        /\ FrameOpcode(Chunk) \in {OP_CODE_TEXT, OP_CODE_BINARY})
       => /\ reader'.exc = PROTOCOL_ERROR
          /\ reader'.partial = reader.partial
          /\ reader'.opcode = reader.opcode]_vars

(* C7: a CONTINUATION frame, fin set or clear, that arrives while            *)
(* message_opcode is unset raises PROTOCOL_ERROR when it is processed, and   *)
(* its payload is not added to partial.                                      *)
C7_ContinuationNeedsStart ==
    [][(/\ IsFeed
        /\ AtFrameBoundary
        /\ reader.opcode = NoneInt
        /\ Chunk \in FragFrames
        /\ FrameOpcode(Chunk) = OP_CODE_CONTINUATION)
       => /\ reader'.exc = PROTOCOL_ERROR
          /\ reader'.partial = reader.partial]_vars

(* C8: the compression flag is per message and sticky.  In well-formed      *)
(* traffic every text or binary message handed to the queue is the one its   *)
(* frames spell out with the compression flag of its first frame: inflated   *)
(* if and only if that frame had RSV1 set, however many continuation frames  *)
(* follow and whatever control frames come between the fragments.            *)
C8_CompressedSticky ==
    ExpectedOf(sent).ok =>
        SelectSeq(Messages, IsData) = SelectSeq(ExpectedOf(DeliveredFrames).calls, IsData)

(* C9: control frames pass through, in order.  A ping, pong or close frame   *)
(* that is processed hands exactly one control message to the queue and      *)
(* leaves partial and message_opcode as they were; and in well-formed        *)
(* uncompressed traffic the reader raises nothing and the queue has received *)
(* exactly the messages of the frames delivered so far, in the order in      *)
(* which their final frames completed: a control frame between two fragments *)
(* before the data message, the data message being the concatenation of its  *)
(* fragments in arrival order, typed by the opcode of its first frame.       *)
C9_ControlPassThrough ==
    /\ []((ExpectedOf(sent).ok /\ \A i \in 1..Len(sent) : ~FrameRsv1(sent[i]))
            => /\ reader.exc = NoExc
               /\ QueueCalls = ExpectedOf(DeliveredFrames).calls)
    /\ [][(/\ IsFeed
           /\ AtFrameBoundary
           /\ Chunk \in FragFrames
           /\ FrameOpcode(Chunk) \in {OP_CODE_CLOSE, OP_CODE_PING, OP_CODE_PONG})
          => /\ sink' = Append(sink, ExpectedControl(Chunk))
             /\ reader'.partial = reader.partial
             /\ reader'.opcode = reader.opcode]_vars

\* TEXT "a" with fin clear, PING, CONTINUATION "c" with fin set: the ping,
\* then the text "ac"
C9_Witness ==
    /\ sent = << <<1, 1, 97>>, <<137, 0>>, <<128, 1, 99>> >>
    /\ reader.exc = NoExc
    /\ Len(Messages) = 2
    /\ Messages[1].type = "PING"
    /\ Messages[2] = Message("TEXT", <<97, 99>>, <<>>)

(* C10: size-check tightness.  With max_msg_size = M > 0 an uncompressed     *)
(* data message of well-formed traffic, in one frame or fragmented, is       *)
(* handed to the queue if and only if its assembled length is below M; the   *)
(* frame with which partial or the assembled payload reaches M raises        *)
(* MESSAGE_TOO_BIG and nothing is delivered for the message.  With M = 0     *)
(* MESSAGE_TOO_BIG is never raised.                                          *)
C10_SizeCheck ==
    /\ (ExpectedOf(sent).ok /\ \A i \in 1..Len(sent) : ~FrameRsv1(sent[i]))
          => QueueCalls = ExpectedOf(DeliveredFrames).calls
    /\ reader.max_msg_size = 0 => reader.exc # MESSAGE_TOO_BIG

\* a message of length 1 was delivered, then the second fragment of the next
\* message brought partial to M = 2
C10_Witness ==
    /\ ExpectedOf(sent).ok
    /\ reader.max_msg_size = 2
    /\ reader.exc = MESSAGE_TOO_BIG
    /\ Len(reader.partial) = 2
    /\ \E i \in 1..Len(Messages) : IsData(Messages[i]) /\ Len(Messages[i].data) = 1

\* the close codes around the codes a close frame may carry, and the parsed
\* close frame whose payload is such a code
CloseCodes == (990..1020) \cup (2990..3010) \cup {0, 1, 4999, 65535}
CloseFrameOf(code) ==
    [fin |-> TRUE, opcode |-> OP_CODE_CLOSE,
     payload |-> <<code \div 256, code % 256>>, compressed |-> "False"]

(* C11: close-frame finalization.  A close frame with an empty payload      *)
(* hands Close{code 0, reason ""} to the queue; one with a 1-byte payload    *)
(* fails with PROTOCOL_ERROR; one with 2 or more bytes carries the          *)
(* big-endian 16-bit code in its first two bytes and Close{code, reason} is  *)
(* handed over if and only if the code is at least 3000 or one of 1000,      *)
(* 1001, 1002, 1003, 1007..1015, and the reason is valid UTF-8; any other    *)
(* code below 3000 fails with PROTOCOL_ERROR and no message is handed over.  *)
C11_CloseFinalization ==
    /\ [](/\ \A i \in 1..Len(Messages) :
              Messages[i].type = "CLOSE" =>
                 \/ Messages[i].data = <<0>> /\ Messages[i].extra = <<>>
                 \/ Messages[i].data[1] >= 3000
                 \/ Messages[i].data[1] \in
                      {1000, 1001, 1002, 1003, 1007, 1008, 1009, 1010, 1011, 1012,
                       1013, 1014, 1015}
          /\ \A code \in CloseCodes :
              LET res == HandleFrame(reader, CloseFrameOf(code))
              IN  IF code >= 3000 \/ code \in
                        {1000, 1001, 1002, 1003, 1007, 1008, 1009, 1010, 1011,
                         1012, 1013, 1014, 1015}
                  THEN res.err = NoExc /\ res.out = <<Message("CLOSE", <<code>>, <<>>)>>
                  ELSE res.err = PROTOCOL_ERROR /\ res.out = <<>>)
    /\ [][(/\ IsFeed
           /\ AtFrameBoundary
           /\ Chunk \in CloseFrames)
          => LET p == FramePayload(Chunk)
                 code == p[1] * 256 + p[2]
                 reason == utf8_decode(SubSeq(p, 3, Len(p)))
             IN  IF p = <<>>
                   THEN /\ sink' = Append(sink, Message("CLOSE", <<0>>, <<>>))
                        /\ reader'.exc = NoExc
                 ELSE IF Len(p) = 1
                   THEN /\ sink' = Append(sink, SetException(PROTOCOL_ERROR))
                        /\ reader'.exc = PROTOCOL_ERROR
                 ELSE IF code >= 3000 \/ code \in
                           {1000, 1001, 1002, 1003, 1007, 1008, 1009, 1010, 1011,
                            1012, 1013, 1014, 1015}
                   THEN IF reason.ok
                        THEN /\ sink' = Append(sink, Message("CLOSE", <<code>>, reason.text))
                             /\ reader'.exc = NoExc
                        ELSE /\ sink' = Append(sink, SetException(INVALID_TEXT))
                             /\ reader'.exc = INVALID_TEXT
                 ELSE /\ sink' = Append(sink, SetException(PROTOCOL_ERROR))
                      /\ reader'.exc = PROTOCOL_ERROR]_vars

\* an empty close and a close with code 1000 and reason "a" were handed over,
\* then the close with code 2999 failed
C11_Witness ==
    /\ sent = << <<136, 0>>, <<136, 3, 3, 232, 97>>, <<136, 2, 11, 183>> >>
    /\ Messages = << Message("CLOSE", <<0>>, <<>>), Message("CLOSE", <<1000>>, <<97>>) >>
    /\ reader.exc = PROTOCOL_ERROR

(* C12: header violations are rejected at header time.  A header with RSV2  *)
(* or RSV3 set, with RSV1 set while compress is disabled, with opcode > 7    *)
(* and fin clear, or with opcode > 7 and length flag > 125 raises            *)
(* PROTOCOL_ERROR in the call that makes its two bytes available, whatever   *)
(* follows them; and every ping, pong and close message handed to the queue  *)
(* comes from a frame with fin set and a payload of at most 125 bytes.       *)
HeaderViolation(b1, b2, compress) ==
    \/ Bit(b1, 5) = 1
    \/ Bit(b1, 4) = 1
    \/ Bit(b1, 6) = 1 /\ ~compress
    \/ b1 % 16 > 7 /\ Bit(b1, 7) = 0
    \/ b1 % 16 > 7 /\ b2 % 128 > 125

\* the number of bytes written before frame i of sent
RECURSIVE Offset(_)
Offset(i) == IF i <= 1 THEN 0 ELSE Offset(i - 1) + Len(sent[i - 1])

\* the control messages of the frames f, those with fin clear or a length
\* flag above 125 left out
RECURSIVE ControlsOf(_)
ControlsOf(frames) ==
    IF frames = <<>> THEN <<>>
    ELSE LET f == Head(frames)
         IN  (IF FrameOpcode(f) > 7 /\ FrameFin(f) /\ f[2] % 128 <= 125
              THEN <<ExpectedControl(f)>> ELSE <<>>) \o ControlsOf(Tail(frames))

ControlMessages == SelectSeq(Messages, LAMBDA e : ~IsData(e))

C12_HeaderRejected ==
    /\ [](/\ \A i \in 1..Len(sent) :
               (/\ HeaderViolation(sent[i][1], sent[i][2], reader.compress)
                /\ Len(Delivered) >= Offset(i) + 2)
               => reader.exc = PROTOCOL_ERROR
          /\ Len(ControlMessages) <= Len(ControlsOf(DeliveredFrames))
          /\ ControlMessages =
               SubSeq(ControlsOf(DeliveredFrames), 1, Len(ControlMessages))
          /\ \A i \in 1..Len(ControlMessages) : Len(ControlMessages[i].data) <= 125)
    /\ [][(/\ IsFeed
           /\ reader.exc = NoExc
           /\ reader.state = READ_HEADER
           /\ Len(reader.tail \o Chunk) >= 2
           /\ HeaderViolation((reader.tail \o Chunk)[1], (reader.tail \o Chunk)[2],
                              reader.compress))
          => /\ reader'.exc = PROTOCOL_ERROR
             /\ sink' = Append(sink, SetException(PROTOCOL_ERROR))
             /\ reader'.state = READ_HEADER]_vars

\* a ping and a pong were handed over; then the two header bytes of a masked
\* close frame with a 64-bit length, and nothing after them, failed
C12_Witness ==
    /\ sent = << <<137, 0>>, <<138, 1, 97>>, <<136, 255>> >>
    /\ wire = <<>>
    /\ Messages = << Message("PING", <<>>, <<>>), Message("PONG", <<97>>, <<>>) >>
    /\ reader.exc = PROTOCOL_ERROR
    /\ reader.state = READ_HEADER

(* C13: RSV1 on a non-first frame of a message.  While a data message is    *)
(* in assembly (a TEXT or BINARY frame with fin clear was received and its   *)
(* message is not completed) every frame header with RSV1 set raises         *)
(* PROTOCOL_ERROR, whether or not control frames came between the fragments. *)
C13_Rsv1MidAssembly ==
    [][(/\ IsFeed
        /\ AtFrameBoundary
        /\ reader.partial # <<>>
        /\ reader.opcode \in {OP_CODE_TEXT, OP_CODE_BINARY}
        /\ Chunk \in AsmFrames
        /\ FrameRsv1(Chunk))
       => reader'.exc = PROTOCOL_ERROR]_vars

(* C14: whenever partial is non-empty, message_opcode is TEXT or BINARY.     *)
C14_PartialHasOpcode ==
    reader.partial # <<>> => reader.opcode \in {OP_CODE_TEXT, OP_CODE_BINARY}

(* C15: message_opcode is cleared on completion.  After a frame that         *)
(* completes a data message (of one frame or of several) message_opcode is   *)
(* unset; and a CONTINUATION frame with fin set that directly follows a      *)
(* completed data message raises PROTOCOL_ERROR, also when the frame that    *)
(* started the message before had an empty payload.                          *)
C15_OpcodeCleared ==
    [][(/\ IsFeed
        /\ AtFrameBoundary
        /\ Chunk \in AsmFrames)
       => /\ (/\ Len(Messages') = Len(Messages) + 1
              /\ IsData(Messages'[Len(Messages')]))
             => reader'.opcode = NoneInt
          /\ (/\ Chunk = <<128, 1, 99>>
              /\ Messages # <<>>
              /\ IsData(Messages[Len(Messages)])
              /\ DeliveredFrames # <<>>
              /\ FrameFin(DeliveredFrames[Len(DeliveredFrames)])
              /\ FrameOpcode(DeliveredFrames[Len(DeliveredFrames)]) < 8)
             => reader'.exc = PROTOCOL_ERROR]_vars

(* C16 as stated: if frame_fin is false and the parse state is HEADER then   *)
(* partial is non-empty or compressed is unset.                              *)
C16_FragmentInProgress ==
    (~reader.frame_fin /\ reader.state = READ_HEADER)
       => (reader.partial # <<>> \/ reader.compressed = NoneBool)

\* every frame received after the last frame with fin set has an empty payload
EmptyFragmentsOnly ==
    \A i \in 1..Len(DeliveredFrames) :
       (\A j \in i..Len(DeliveredFrames) : ~FrameFin(DeliveredFrames[j]))
          => FramePayload(DeliveredFrames[i]) = <<>>

(* C16 amended: at the return of a feed_data call that left the reader       *)
(* without error, if frame_fin is false and the parse state is HEADER then   *)
(* partial is non-empty, or compressed is unset, or every fragment received  *)
(* since the last frame with fin set had an empty payload.                   *)
C16_FragmentInProgressOrEmpty ==
    (reader.exc = NoExc /\ ~reader.frame_fin /\ reader.state = READ_HEADER)
       => \/ reader.partial # <<>>
          \/ reader.compressed = NoneBool
          \/ EmptyFragmentsOnly

\* a message was delivered, then a TEXT frame with fin clear and no payload
\* started the next one
C16_Witness ==
    /\ reader.exc = NoExc
    /\ ~reader.frame_fin
    /\ reader.state = READ_HEADER
    /\ reader.partial = <<>>
    /\ reader.compressed = "False"
    /\ reader.opcode = OP_CODE_TEXT
    /\ Len(Messages) >= 1
    /\ sent[Len(sent)] = <<1, 0>>
    /\ wire = <<>>

\* the layout of a frame as written: extended length bytes, masking key,
\* payload bytes as they are on the wire
FrameMasked(f) == Bit(f[2], 7) = 1
FrameExtLen(f) == IF f[2] % 128 = 126 THEN 2 ELSE IF f[2] % 128 = 127 THEN 8 ELSE 0
FrameHeaderLen(f) == 2 + FrameExtLen(f) + (IF FrameMasked(f) THEN 4 ELSE 0)
FrameKey(f) == SubSeq(f, 3 + FrameExtLen(f), 6 + FrameExtLen(f))
FrameWirePayload(f) == SubSeq(f, FrameHeaderLen(f) + 1, Len(f))

\* the frame the reader is in, and how many of its bytes were delivered
CurrentFrame == sent[Len(DeliveredFrames) + 1]
InFrame == Len(Delivered) - Offset(Len(DeliveredFrames) + 1)

(* C17: suspension points.  At the return of every feed_data call that did  *)
(* not raise, the parser is suspended at a field boundary or inside the      *)
(* payload: in HEADER state tail holds at most 1 byte; in LENGTH state the   *)
(* length flag is 126 or 127 and tail holds fewer than 2 or 8 bytes, which   *)
(* are all the bytes received after the header; in MASK state tail holds at  *)
(* most 3 bytes; in PAYLOAD state tail is empty and the remaining payload    *)
(* length is greater than 0.  tail is always the end of the bytes received,  *)
(* and the next call works on tail followed by the new chunk.                *)
C17_SuspensionPoints ==
    /\ [](reader.exc = NoExc =>
            /\ reader.tail = Slice(Delivered, Len(Delivered) - Len(reader.tail),
                                   Len(Delivered))
            /\ reader.state = READ_HEADER =>
                  Len(reader.tail) <= 1 /\ InFrame = Len(reader.tail)
            /\ reader.state = READ_PAYLOAD_LENGTH =>
                  /\ reader.payload_length_flag \in {126, 127}
                  /\ reader.payload_length_flag = 126 => Len(reader.tail) < 2
                  /\ reader.payload_length_flag = 127 => Len(reader.tail) < 8
                  /\ InFrame = 2 + Len(reader.tail)
            /\ reader.state = READ_PAYLOAD_MASK =>
                  /\ Len(reader.tail) <= 3
                  /\ InFrame = 2 + FrameExtLen(CurrentFrame) + Len(reader.tail)
            /\ reader.state = READ_PAYLOAD =>
                  /\ reader.tail = <<>>
                  /\ reader.payload_length > 0
                  /\ InFrame = FrameHeaderLen(CurrentFrame) + Len(reader.frame_payload)
                  /\ reader.payload_length =
                       Len(CurrentFrame) - FrameHeaderLen(CurrentFrame)
                          - Len(reader.frame_payload))
    /\ [][(IsFeed /\ reader.exc = NoExc)
          => LET res == feed_data([reader EXCEPT !.tail = <<>>], reader.tail \o Chunk)
             IN  reader' = res.r /\ sink' = sink \o res.out]_vars

\* suspended with 7 of the 8 bytes of a 64-bit length in tail, after a
\* message was delivered
C17_Witness ==
    /\ reader.exc = NoExc
    /\ reader.state = READ_PAYLOAD_LENGTH
    /\ reader.payload_length_flag = 127
    /\ Len(reader.tail) = 7
    /\ Len(Messages) >= 1

\* the message a frame of MaskFrames is to produce
UnmaskedMessage(f) ==
    LET raw == FrameWirePayload(f)
        key == FrameKey(f)
        data == IF FrameMasked(f)
                THEN [i \in 1..Len(raw) |-> XorByte(raw[i], key[((i - 1) % 4) + 1])]
                ELSE raw
    IN  Message("BINARY", data, <<>>)

(* C18: unmasking is per frame and independent of chunking.  Byte i of the   *)
(* payload handed over for a masked frame is received byte i XOR             *)
(* key[i mod 4], i counted from the start of the payload of that frame,      *)
(* however the bytes were split over feed_data calls; the payload of an      *)
(* unmasked frame is handed over unchanged, also after a masked frame; and   *)
(* the mask is applied once, when the payload is complete: until then        *)
(* frame_payload holds the bytes as received.                                *)
C18_Unmasking ==
    /\ reader.exc = NoExc
    /\ Messages = [i \in 1..Len(DeliveredFrames) |-> UnmaskedMessage(DeliveredFrames[i])]
    /\ reader.state = READ_PAYLOAD =>
          reader.frame_payload =
             SubSeq(CurrentFrame, FrameHeaderLen(CurrentFrame) + 1, InFrame)
    /\ reader.state # READ_PAYLOAD => reader.frame_payload = <<>>

\* the masked frame of 5 bytes, then the unmasked "bb", then the masked
\* frame with a 16-bit length
C18_Witness ==
    /\ sent = << <<130, 133, 1, 2, 3, 4, 10, 20, 30, 40, 50>>, <<130, 2, 98, 98>>,
                 <<130, 254, 0, 1, 5, 6, 7, 8, 99>> >>
    /\ Messages = << Message("BINARY", <<11, 22, 29, 44, 51>>, <<>>),
                     Message("BINARY", <<98, 98>>, <<>>),
                     Message("BINARY", <<102>>, <<>>) >>
    /\ reader.frame_mask = <<5, 6, 7, 8>>

KnownOpcode(f) ==
    FrameOpcode(f) \in {OP_CODE_CONTINUATION, OP_CODE_TEXT, OP_CODE_BINARY,
                        OP_CODE_CLOSE, OP_CODE_PING, OP_CODE_PONG}

(* C19: unknown opcode.  A complete frame whose opcode is none of 0, 1, 2,   *)
(* 8, 9, 10 raises PROTOCOL_ERROR, whatever its fin bit and whatever partial *)
(* and message_opcode hold; no message is handed to the queue for it or      *)
(* after it, and its payload is not appended to partial.                     *)
C19_UnknownOpcode ==
    /\ [](\A i \in 1..Len(DeliveredFrames) :
            ~KnownOpcode(DeliveredFrames[i])
               => /\ reader.exc = PROTOCOL_ERROR
                  /\ Len(Messages) < i)
    /\ [][(/\ IsFeed
           /\ AtFrameBoundary
           /\ Chunk \in OpFrames
           /\ ~KnownOpcode(Chunk))
          => /\ reader'.exc = PROTOCOL_ERROR
             /\ sink' = Append(sink, SetException(PROTOCOL_ERROR))
             /\ reader'.partial = reader.partial
             /\ reader'.opcode = reader.opcode]_vars

\* a ping, a TEXT fragment "a", then a frame with opcode 7 and fin set: the
\* fragment is still in partial
C19_Witness ==
    /\ sent = << <<137, 0>>, <<1, 1, 97>>, <<135, 1, 97>> >>
    /\ wire = <<>>
    /\ reader.exc = PROTOCOL_ERROR
    /\ reader.partial = <<97>>
    /\ reader.opcode = OP_CODE_TEXT
    /\ reader.frame_opcode = 7
    /\ QueueCalls = << Message("PING", <<>>, <<>>), SetException(PROTOCOL_ERROR) >>

(* C20: end of stream is final for the queue.  Once feed_eof has called      *)
(* queue.feed_eof, no later feed_data call on the reader hands a message to  *)
(* the queue; and feed_eof calls queue.feed_eof exactly once and changes no  *)
(* field of the reader.                                                      *)
C20_EofIsFinal ==
    [][/\ (\E i \in 1..Len(sink) : sink[i].ev = "feed_eof") => Messages' = Messages
       /\ ~IsFeed /\ sink' # sink => sink' = Append(sink, QueueEof) /\ reader' = reader]_vars

=============================================================================
